---------------------------- MODULE Spec2Model ----------------------------
(***************************************************************************)
(* A model of financepy/market/curves/FinZeroCurve.py: the construction of *)
(* a zero curve from (time-or-date, zero rate) quotes and the queries on   *)
(* it (zeroRate, df, survProb, fwd, fwdRate, bump, __repr__).              *)
(*                                                                         *)
(* Real numbers are modelled exactly.  A time or a rate is a rational      *)
(* <<n, d>> in lowest terms with d > 0.  A discount factor is a closed     *)
(* form  exp(e) * (1 + r/f)^p  with rational e, r, p and integer f, which  *)
(* is the shape every value the constructor and bump produce has.          *)
(* A quantity that has no such closed form stays an unevaluated term.      *)
(***************************************************************************)
EXTENDS Integers, Sequences, FiniteSets, TLC

-----------------------------------------------------------------------------
(* Bounds of the model. *)

\* longest list of quotes given to the constructor
MaxLen == 2

-----------------------------------------------------------------------------
(* Exact rational arithmetic, standing for Python / numpy float arithmetic. *)

Abs(n) == IF n < 0 THEN -n ELSE n

RECURSIVE GCD(_, _)
GCD(a, b) == IF b = 0 THEN a ELSE GCD(b, a % b)

RatNorm(n, d) ==
    LET s == IF d < 0 THEN -1 ELSE 1
        g == GCD(Abs(n), Abs(d))
    IN  <<(s * n) \div g, (s * d) \div g>>

Zero == <<0, 1>>
One == <<1, 1>>
RatInt(n) == <<n, 1>>
RatNeg(a) == <<-a[1], a[2]>>
RatAdd(a, b) == RatNorm(a[1] * b[2] + b[1] * a[2], a[2] * b[2])
RatMul(a, b) == RatNorm(a[1] * b[1], a[2] * b[2])
\* a / b, for b # 0
RatDiv(a, b) == RatNorm(a[1] * b[2], a[2] * b[1])
RatLt(a, b) == a[1] * b[2] < b[1] * a[2]

-----------------------------------------------------------------------------
(* Discount factors: exp(e) * (1 + r/f)^p. *)

DFOne == [kind |-> "pw", e |-> Zero, r |-> Zero, f |-> 1, p |-> Zero]

\* a closed form with a trivial base (r = 0) or a zero exponent has no base
DFNorm(d) ==
    IF d.r = Zero \/ d.p = Zero
    THEN [kind |-> "pw", e |-> d.e, r |-> Zero, f |-> 1, p |-> Zero]
    ELSE d

\* np.exp(x)
Exp(x) == [kind |-> "pw", e |-> x, r |-> Zero, f |-> 1, p |-> Zero]

\* np.power(1.0 + r/freq, x)
Power(r, freq, x) == DFNorm([kind |-> "pw", e |-> Zero, r |-> r, f |-> freq, p |-> x])

\* 1.0 / d
Recip(d) == DFNorm([kind |-> "pw", e |-> RatNeg(d.e), r |-> d.r, f |-> d.f, p |-> RatNeg(d.p)])

\* d * np.exp(x)
MulExp(d, x) == DFNorm([kind |-> "pw", e |-> RatAdd(d.e, x), r |-> d.r, f |-> d.f, p |-> d.p])

IsClosed(d) == d.kind = "pw"

-----------------------------------------------------------------------------
(* Rates computed from a discount factor. *)

RatVal(x) == [kind |-> "rat", v |-> x]
NonFinite == [kind |-> "nonfinite"]
\* no value: the call raised before computing one
NoResult == [kind |-> "none"]

\* (1.0/df - 1.0)/t
SimpleRate(df, t) ==
    IF t = Zero THEN NonFinite
    ELSE IF df = DFOne THEN RatVal(Zero)
    ELSE [kind |-> "simple", df |-> df, t |-> t]

\* -np.log(df) / t
ContRate(df, t) ==
    IF t = Zero THEN NonFinite
    ELSE IF IsClosed(df) /\ df.p = Zero THEN RatVal(RatDiv(RatNeg(df.e), t))
    ELSE [kind |-> "cont", df |-> df, t |-> t]

\* (df**(-1.0/t/f) - 1) * f
PeriodicRate(df, t, f) ==
    IF t = Zero \/ f = 0 THEN NonFinite
    ELSE IF df = DFOne THEN RatVal(Zero)
    ELSE IF /\ IsClosed(df)
            /\ df.e = Zero
            /\ RatMul(df.p, RatDiv(RatInt(-1), RatMul(t, RatInt(f)))) = One
         THEN RatVal(RatDiv(RatMul(df.r, RatInt(f)), RatInt(df.f)))
    ELSE [kind |-> "periodic", df |-> df, t |-> t, f |-> f]

-----------------------------------------------------------------------------
(* The collaborators the file imports (FinFrequency, FinDayCount, FinMath, *)
(* FinGlobalVariables).                                                    *)

gDaysInYear == 365

FinFrequencyTypes == {"ANNUAL", "SEMI_ANNUAL", "CONTINUOUS"}
FinDayCountTypes == {"ACT_365F", "ACT_360"}
FinInterpMethods == {"FLAT_FORWARDS"}

\* periods per year; -1 is the sentinel of continuous compounding
FinFrequency(frequencyType) ==
    CASE frequencyType = "ANNUAL" -> 1
      [] frequencyType = "SEMI_ANNUAL" -> 2
      [] frequencyType = "CONTINUOUS" -> -1

\* FinDayCount(dayCountType).yearFrac(d1, d2), dates being day numbers
yearFrac(dayCountType, d1, d2) ==
    CASE dayCountType = "ACT_365F" -> RatNorm(d2 - d1, 365)
      [] dayCountType = "ACT_360" -> RatNorm(d2 - d1, 360)

\* FALSE when some element is below its predecessor
testMonotonicity(x) ==
    \A i \in 2..Len(x) : ~RatLt(x[i], x[i - 1])

-----------------------------------------------------------------------------
(* FinZeroCurve.__init__ *)

FieldNames == {"_curveDate", "_times", "_values", "_dayCountType",
               "_frequencyType", "_interpMethod"}

\* an object none of whose attributes has been assigned; _times and _values
\* hold references into the heap of arrays (0: no array)
NewObject ==
    [assigned |-> {}, _curveDate |-> 0, _times |-> 0, _values |-> 0,
     _dayCountType |-> "", _frequencyType |-> "", _interpMethod |-> ""]

\* self.<name> = value
SetAttr(obj, name, value) ==
    [[obj EXCEPT ![name] = value] EXCEPT !.assigned = @ \cup {name}]

\* the discount factor of one quote with the reciprocal 1.0 / ... left out
QuoteDF_NoRecip(freq, r, t, alpha) ==
    IF freq = -1
    THEN Exp(RatNeg(RatMul(r, t)))
    ELSE Power(r, freq, RatMul(RatInt(freq), alpha))

\* the discount factor of one quote: lines 69-72 (t as the exponent) and
\* lines 91-94 (t under continuous compounding, alpha otherwise)
QuoteDF(freq, r, t, alpha) ==
    IF freq = -1
    THEN Exp(RatNeg(RatMul(r, t)))
    ELSE Recip(Power(r, freq, RatMul(RatInt(freq), alpha)))

\* the loop over float offsets without the test t < 0.0
FloatLoop_NoNegCheck(timesOrDates, zeroRates, freq, i, times, values) ==
    [err |-> "",
     times |-> [k \in 1..Len(timesOrDates) |-> RatInt(timesOrDates[k].v)],
     values |-> [k \in 1..Len(timesOrDates) |->
                   QuoteDF(freq, zeroRates[k], RatInt(timesOrDates[k].v),
                           RatInt(timesOrDates[k].v))]]

\* the loop over float offsets, from index i on
RECURSIVE FloatLoop(_, _, _, _, _, _)
FloatLoop(timesOrDates, zeroRates, freq, i, times, values) ==
    IF i > Len(timesOrDates)
    THEN [err |-> "", times |-> times, values |-> values]
    ELSE LET t == RatInt(timesOrDates[i].v)
         IN  IF RatLt(t, Zero)
             THEN [err |-> "NegativeTime", times |-> times, values |-> values]
             ELSE FloatLoop(timesOrDates, zeroRates, freq, i + 1,
                            Append(times, t),
                            Append(values, QuoteDF(freq, zeroRates[i], t, t)))

\* the loop over dates, from index i on
RECURSIVE DateLoop(_, _, _, _, _, _, _, _)
DateLoop(curveDate, timesOrDates, zeroRates, freq, dayCountType, i, times, values) ==
    IF i > Len(timesOrDates)
    THEN [err |-> "", times |-> times, values |-> values]
    ELSE LET t == RatNorm(timesOrDates[i].v - curveDate, gDaysInYear)
             alpha == yearFrac(dayCountType, curveDate, timesOrDates[i].v)
         IN  IF RatLt(t, Zero)
             THEN [err |-> "NegativeTime", times |-> times, values |-> values]
             ELSE DateLoop(curveDate, timesOrDates, zeroRates, freq, dayCountType,
                           i + 1, Append(times, t),
                           Append(values, QuoteDF(freq, zeroRates[i], t, alpha)))

\* the branch on the type of the first element
BuildArrays(curveDate, timesOrDates, zeroRates, freq, dayCountType) ==
    IF timesOrDates[1].kind = "float"
    THEN FloatLoop(timesOrDates, zeroRates, freq, 1, <<>>, <<>>)
    ELSE IF timesOrDates[1].kind = "date"
    THEN DateLoop(curveDate, timesOrDates, zeroRates, freq, dayCountType, 1, <<>>, <<>>)
    ELSE [err |-> "UnsupportedInputType", times |-> <<>>, values |-> <<>>]

Raise(h, e) == [err |-> e, heap |-> h, self |-> NewObject]

\* the tail of the constructor with the assignments of _curveDate and _times
\* moved before the monotonicity test
Finish_EarlyAssign(h, a, built) ==
    LET tref == Len(h) + 1
        vref == Len(h) + 2
        s1 == SetAttr(NewObject, "_curveDate", a.curveDate)
        s2 == SetAttr(s1, "_times", tref)
        s3 == SetAttr(s2, "_values", vref)
        s4 == SetAttr(s3, "_dayCountType", a.dayCountType)
        s5 == SetAttr(s4, "_frequencyType", a.frequencyType)
        s6 == SetAttr(s5, "_interpMethod", a.interpMethod)
    IN  IF ~testMonotonicity(built.times)
        THEN [err |-> "NotMonotonic", heap |-> Append(h, built.times), self |-> s2]
        ELSE [err |-> "", heap |-> h \o <<built.times, built.values>>, self |-> s6]

\* the tail of the constructor with the monotonicity test left out
Finish_NoTest(h, a, built) ==
    LET s1 == SetAttr(NewObject, "_curveDate", a.curveDate)
        s2 == SetAttr(s1, "_times", Len(h) + 1)
        s3 == SetAttr(s2, "_values", Len(h) + 2)
        s4 == SetAttr(s3, "_dayCountType", a.dayCountType)
        s5 == SetAttr(s4, "_frequencyType", a.frequencyType)
        s6 == SetAttr(s5, "_interpMethod", a.interpMethod)
    IN  [err |-> "", heap |-> h \o <<built.times, built.values>>, self |-> s6]

\* the tail of the constructor: the monotonicity test, then the assignments
Finish(h, a, built) ==
    IF ~testMonotonicity(built.times)
    THEN Raise(h, "NotMonotonic")
    ELSE LET tref == Len(h) + 1
             vref == Len(h) + 2
             s1 == SetAttr(NewObject, "_curveDate", a.curveDate)
             s2 == SetAttr(s1, "_times", tref)
             s3 == SetAttr(s2, "_values", vref)
             s4 == SetAttr(s3, "_dayCountType", a.dayCountType)
             s5 == SetAttr(s4, "_frequencyType", a.frequencyType)
             s6 == SetAttr(s5, "_interpMethod", a.interpMethod)
         IN  [err |-> "", heap |-> h \o <<built.times, built.values>>, self |-> s6]

\* the constructor with the length comparison made before the emptiness test
FinZeroCurve_init_LengthFirst(h, a) ==
    IF Len(a.timesOrDates) # Len(a.zeroRates) THEN Raise(h, "LengthMismatch")
    ELSE IF Len(a.timesOrDates) = 0 THEN Raise(h, "EmptyInput")
    ELSE IF a.frequencyType \notin FinFrequencyTypes THEN Raise(h, "UnknownFrequency")
    ELSE IF a.dayCountType \notin FinDayCountTypes THEN Raise(h, "UnknownDayCount")
    ELSE LET freq == FinFrequency(a.frequencyType)
             built == BuildArrays(a.curveDate, a.timesOrDates, a.zeroRates,
                                  freq, a.dayCountType)
         IN  IF built.err # "" THEN Raise(h, built.err)
             ELSE Finish(h, a, built)

\* the constructor called with the arguments a on the heap h
FinZeroCurve_init(h, a) ==
    IF Len(a.timesOrDates) = 0 THEN Raise(h, "EmptyInput")
    ELSE IF Len(a.timesOrDates) # Len(a.zeroRates) THEN Raise(h, "LengthMismatch")
    ELSE IF a.frequencyType \notin FinFrequencyTypes THEN Raise(h, "UnknownFrequency")
    ELSE IF a.dayCountType \notin FinDayCountTypes THEN Raise(h, "UnknownDayCount")
    ELSE LET freq == FinFrequency(a.frequencyType)
             built == BuildArrays(a.curveDate, a.timesOrDates, a.zeroRates,
                                  freq, a.dayCountType)
         IN  IF built.err # "" THEN Raise(h, built.err)
             ELSE Finish(h, a, built)

-----------------------------------------------------------------------------
(* Inputs. *)

\* whole-year offsets given as floats, numbers that are not floats, and
\* dates; a list holds numbers only or dates only
FloatElems == {[kind |-> "float", v |-> n] : n \in {-1, 0, 1, 2}}
IntElems == {[kind |-> "int", v |-> n] : n \in {-1, 1}}
CurveDates == {10}
DateElems == {[kind |-> "date", v |-> n] : n \in {9, 10, 375}}

SeqsUpTo(S, n) == UNION {[1..k -> S] : k \in 0..n}

TimeLists == SeqsUpTo(FloatElems \cup IntElems, MaxLen) \cup SeqsUpTo(DateElems, MaxLen)

\* zero rates: 0 and 2%
Rates == {Zero, <<1, 50>>}
RateLists == SeqsUpTo(Rates, MaxLen)

FrequencyArgs == FinFrequencyTypes \cup {"BAD_FREQUENCY"}
DayCountArgs == FinDayCountTypes \cup {"BAD_DAYCOUNT"}

-----------------------------------------------------------------------------
(* State. *)

VARIABLES
    phase,  \* "new": no constructor call yet; "built"; "failed"
    call,   \* the arguments of the constructor call
    err,    \* the error the constructor raised, "" for none
    heap,   \* the arrays, by reference
    self,   \* the FinZeroCurve object
    last    \* the last query and what it returned

vars == <<phase, call, err, heap, self, last>>

NoCall ==
    [curveDate |-> 0, timesOrDates |-> <<>>, zeroRates |-> <<>>,
     frequencyType |-> "", dayCountType |-> "", interpMethod |-> ""]

NoQuery == [op |-> "none"]

Init ==
    /\ phase = "new"
    /\ call = NoCall
    /\ err = ""
    /\ heap = <<>>
    /\ self = NewObject
    /\ last = NoQuery

Construct ==
    /\ phase = "new"
    /\ \E cd \in CurveDates, tod \in TimeLists, zr \in RateLists,
          ft \in FrequencyArgs, dct \in DayCountArgs, im \in FinInterpMethods :
          LET a == [curveDate |-> cd, timesOrDates |-> tod, zeroRates |-> zr,
                    frequencyType |-> ft, dayCountType |-> dct, interpMethod |-> im]
              res == FinZeroCurve_init(heap, a)
          IN  /\ call' = a
              /\ err' = res.err
              /\ heap' = res.heap
              /\ self' = res.self
              /\ phase' = IF res.err = "" THEN "built" ELSE "failed"
    /\ UNCHANGED last

-----------------------------------------------------------------------------
(* The collaborators of the queries (FinHelperFunctions, FinInterpolate,   *)
(* FinDiscountCurve).                                                      *)

\* the year offset of a float or of a date from the curve date
inputTime(dt, s) ==
    IF dt.kind = "date"
    THEN RatNorm(dt.v - s._curveDate, gDaysInYear)
    ELSE RatInt(dt.v)

\* periods per year of a compounding frequency given as a number
inputFrequency(f) == f

\* at a grid time the stored value (of the first such node); elsewhere a
\* value the interpolation method decides, left unevaluated
interpolate(t, times, values, method) ==
    IF \E i \in 1..Len(times) : times[i] = t
    THEN values[CHOOSE i \in 1..Len(times) :
                    /\ times[i] = t
                    /\ \A j \in 1..(i - 1) : times[j] # t]
    ELSE [kind |-> "interp", t |-> t, times |-> times, values |-> values,
          method |-> method]

\* FinDiscountCurve(curveDate, times, values, interpMethod): keeps the
\* arrays it is given
FinDiscountCurve(curveDate, times, values, interpMethod) ==
    [_curveDate |-> curveDate, _times |-> times, _values |-> values,
     _interpMethod |-> interpMethod]

-----------------------------------------------------------------------------
(* The queries. *)

\* FinZeroCurve.df
df(h, s, dt) ==
    LET t == inputTime(dt, s)
    IN  interpolate(t, h[s._times], h[s._values], s._interpMethod)

\* FinZeroCurve.survProb
survProb(h, s, dt) ==
    LET t == inputTime(dt, s)
    IN  interpolate(t, h[s._times], h[s._values], s._interpMethod)

\* FinZeroCurve.zeroRate: the value bound to zeroRate after the first if,
\* then the value the if / else after it binds and the method returns
zeroRate(h, s, dt, compoundingFreq) ==
    LET t == inputTime(dt, s)
        f == inputFrequency(compoundingFreq)
        d == interpolate(t, h[s._times], h[s._values], s._interpMethod)
        first == IF f = 0 THEN SimpleRate(d, t) ELSE [kind |-> "unbound"]
        second == IF f = -1 THEN ContRate(d, t) ELSE PeriodicRate(d, t, f)
    IN  [t |-> t, f |-> f, df |-> d, first |-> first, result |-> second]

\* t + 0.000001
SmallStep == <<1, 1000000>>

\* FinZeroCurve.fwd: np.log(df1/df2)/dt
fwd(h, s, dt) ==
    LET t == inputTime(dt, s)
        df1 == interpolate(t, h[s._times], h[s._values], s._interpMethod)
        df2 == interpolate(RatAdd(t, SmallStep), h[s._times], h[s._values],
                           s._interpMethod)
    IN  [kind |-> "fwd", df1 |-> df1, df2 |-> df2, dt |-> SmallStep]

\* (df1 / df2 - 1.0) / yearFrac
SimpleForward(df1, df2, yf) ==
    IF yf = Zero THEN NonFinite
    ELSE [kind |-> "fwdRate", df1 |-> df1, df2 |-> df2, yearFrac |-> yf]

\* fwdRate with its two date tests in the other order
fwdRate_SwappedTests(h, s, date1, date2, dayCountType) ==
    IF date2 < date1
    THEN [err |-> "Date2 must not be before Date1", calls |-> <<>>,
          result |-> NoResult]
    ELSE IF date1 < s._curveDate
    THEN [err |-> "Date1 before curve value date.", calls |-> <<>>,
          result |-> NoResult]
    ELSE LET yf == yearFrac(dayCountType, date1, date2)
             df1 == df(h, s, [kind |-> "date", v |-> date1])
             df2 == df(h, s, [kind |-> "date", v |-> date2])
         IN  [err |-> "", calls |-> <<"yearFrac", "df", "df">>,
              result |-> SimpleForward(df1, df2, yf)]

\* FinZeroCurve.fwdRate; calls lists the collaborators it has called
fwdRate(h, s, date1, date2, dayCountType) ==
    IF date1 < s._curveDate
    THEN [err |-> "Date1 before curve value date.", calls |-> <<>>,
          result |-> NoResult]
    ELSE IF date2 < date1
    THEN [err |-> "Date2 must not be before Date1", calls |-> <<>>,
          result |-> NoResult]
    ELSE LET yf == yearFrac(dayCountType, date1, date2)
             df1 == df(h, s, [kind |-> "date", v |-> date1])
             df2 == df(h, s, [kind |-> "date", v |-> date2])
         IN  [err |-> "", calls |-> <<"yearFrac", "df", "df">>,
              result |-> SimpleForward(df1, df2, yf)]

\* a reference to the same array in place of a copy
ArrayAlias(h, ref) == [heap |-> h, ref |-> ref]

\* a.copy(): a new array with the elements of the array at ref
ArrayCopy(h, ref) == [heap |-> Append(h, h[ref]), ref |-> Len(h) + 1]

\* the loop of bump with np.exp(bumpSize*t), the sign lost
BumpLoop_PlusSign(h, times, values, bumpSize, i, n) ==
    [h EXCEPT ![values] =
        [k \in 1..Len(h[values]) |->
            IF k < i \/ k > n THEN h[values][k]
            ELSE MulExp(h[values][k], RatMul(bumpSize, h[times][k]))]]

\* the loop of bump stopping one element early, range(0, n - 1)
BumpLoop_SkipLast(h, times, values, bumpSize, i, n) ==
    [h EXCEPT ![values] =
        [k \in 1..Len(h[values]) |->
            IF k < i \/ k > n - 1 THEN h[values][k]
            ELSE MulExp(h[values][k], RatNeg(RatMul(bumpSize, h[times][k])))]]

\* the loop of bump, from index i on: values[i] = values[i] * np.exp(-bumpSize*t)
RECURSIVE BumpLoop(_, _, _, _, _, _)
BumpLoop(h, times, values, bumpSize, i, n) ==
    IF i > n THEN h
    ELSE LET t == h[times][i]
             v == MulExp(h[values][i], RatNeg(RatMul(bumpSize, t)))
         IN  BumpLoop([h EXCEPT ![values][i] = v], times, values, bumpSize, i + 1, n)

\* FinZeroCurve.bump
bump(h, s, bumpSize) ==
    LET c1 == ArrayCopy(h, s._times)
        c2 == ArrayCopy(c1.heap, s._values)
        n == Len(c2.heap[s._times])
        h3 == BumpLoop(c2.heap, c1.ref, c2.ref, bumpSize, 1, n)
    IN  [heap |-> h3,
         curve |-> FinDiscountCurve(s._curveDate, c1.ref, c2.ref, s._interpMethod)]

\* FinDiscountCurve.bump: the same shift, applied to a discount curve
FinDiscountCurve_bump(h, c, bumpSize) ==
    LET h1 == Append(h, h[c._times])
        h2 == Append(h1, h[c._values])
        h3 == [h2 EXCEPT ![Len(h2)] =
                  [i \in 1..Len(h[c._values]) |->
                      MulExp(h[c._values][i], RatNeg(RatMul(bumpSize, h[c._times][i])))]]
    IN  [heap |-> h3,
         curve |-> FinDiscountCurve(c._curveDate, Len(h1), Len(h2), c._interpMethod)]

\* FinZeroCurve.__repr__: the header, then one line per node
repr(h, s) ==
    [header |-> <<"TIMES", "DISCOUNT FACTORS">>,
     lines |-> [i \in 1..Len(h[s._times]) |-> <<h[s._times][i], h[s._values][i]>>]]

-----------------------------------------------------------------------------
(* The calls of the queries. *)

QueryTimes == {[kind |-> "float", v |-> n] : n \in {0, 1, 2, 3}}
                  \cup {[kind |-> "date", v |-> n] : n \in {375}}
CompoundingFreqs == {-1, 0, 1, 2}
QueryDates == {8, 9, 10, 375}
BumpSizes == {Zero, <<1, 100>>, <<-1, 100>>}

\* the arrays the curve refers to; the result of an earlier query is dropped
\* when the next one is made
Live(h, s) == SubSeq(h, 1, 2)

ZeroRate ==
    /\ phase = "built"
    /\ \E dt \in QueryTimes, cf \in CompoundingFreqs :
          last' = [op |-> "zeroRate", dt |-> dt, compoundingFreq |-> cf,
                   out |-> zeroRate(heap, self, dt, cf)]
    /\ heap' = Live(heap, self)
    /\ UNCHANGED <<phase, call, err, self>>

Df ==
    /\ phase = "built"
    /\ \E dt \in QueryTimes :
          last' = [op |-> "df", dt |-> dt, out |-> df(heap, self, dt)]
    /\ heap' = Live(heap, self)
    /\ UNCHANGED <<phase, call, err, self>>

SurvProb ==
    /\ phase = "built"
    /\ \E dt \in QueryTimes :
          last' = [op |-> "survProb", dt |-> dt, out |-> survProb(heap, self, dt)]
    /\ heap' = Live(heap, self)
    /\ UNCHANGED <<phase, call, err, self>>

Fwd ==
    /\ phase = "built"
    /\ \E dt \in QueryTimes :
          last' = [op |-> "fwd", dt |-> dt, out |-> fwd(heap, self, dt)]
    /\ heap' = Live(heap, self)
    /\ UNCHANGED <<phase, call, err, self>>

FwdRate ==
    /\ phase = "built"
    /\ \E date1 \in QueryDates, date2 \in QueryDates, dct \in FinDayCountTypes :
          last' = [op |-> "fwdRate", date1 |-> date1, date2 |-> date2,
                   dayCountType |-> dct,
                   out |-> fwdRate(heap, self, date1, date2, dct)]
    /\ heap' = Live(heap, self)
    /\ UNCHANGED <<phase, call, err, self>>

Bump ==
    /\ phase = "built"
    /\ \E bumpSize \in BumpSizes :
          LET res == bump(Live(heap, self), self, bumpSize)
          IN  /\ heap' = res.heap
              /\ last' = [op |-> "bump", bumpSize |-> bumpSize, out |-> res.curve]
    /\ UNCHANGED <<phase, call, err, self>>

\* bump called on the curve the last bump returned
BumpAgain ==
    /\ phase = "built"
    /\ last.op = "bump"
    /\ \E bumpSize \in BumpSizes :
          LET res == FinDiscountCurve_bump(heap, last.out, bumpSize)
          IN  /\ heap' = res.heap
              /\ last' = [op |-> "bumpAgain", first |-> last.bumpSize,
                          bumpSize |-> bumpSize, out |-> res.curve]
    /\ UNCHANGED <<phase, call, err, self>>

Repr ==
    /\ phase = "built"
    /\ last' = [op |-> "repr", out |-> repr(heap, self)]
    /\ heap' = Live(heap, self)
    /\ UNCHANGED <<phase, call, err, self>>

Next ==
    \/ Construct
    \/ ZeroRate
    \/ Df
    \/ SurvProb
    \/ Fwd
    \/ FwdRate
    \/ Bump
    \/ BumpAgain
    \/ Repr

Spec == Init /\ [][Next]_vars

-----------------------------------------------------------------------------
(* Properties. *)

\* the year offset the i-th element of the call's list stands for
ResolvedTime(a, i) ==
    IF a.timesOrDates[i].kind = "date"
    THEN RatNorm(a.timesOrDates[i].v - a.curveDate, gDaysInYear)
    ELSE RatInt(a.timesOrDates[i].v)

HasNegativeTime(a) ==
    \E i \in 1..Len(a.timesOrDates) : RatLt(ResolvedTime(a, i), Zero)

NotSorted(a) ==
    \E i \in 2..Len(a.timesOrDates) : RatLt(ResolvedTime(a, i), ResolvedTime(a, i - 1))

\* the arrays of the curve
Times == heap[self._times]
Values == heap[self._values]

\* C1: zeroRate returns the simple-interest formula (1/df - 1)/t when the
\* resolved frequency f is 0, -ln(df)/t when f is -1, and the periodic
\* formula (df^(-1/(t*f)) - 1)*f for every other f.
C1_OneOfThreeFormulas ==
    last.op = "zeroRate" =>
        LET o == last.out
        IN  o.result = IF o.f = 0 THEN SimpleRate(o.df, o.t)
                       ELSE IF o.f = -1 THEN ContRate(o.df, o.t)
                       ELSE PeriodicRate(o.df, o.t, o.f)

\* C2: whenever the constructor raises, no attribute of the curve has been
\* assigned; attributes are assigned only when no check failed, all six of
\* them, and then the stored times have passed the monotonicity test.
C2_AllOrNothing ==
    /\ (err # "" => self = NewObject)
    /\ (self.assigned # {} =>
            /\ err = ""
            /\ self.assigned = FieldNames
            /\ testMonotonicity(Times))

C2_Witness ==
    /\ phase = "failed"
    /\ err = "NotMonotonic"
    /\ Len(call.timesOrDates) = MaxLen

\* zeroRate was asked at the grid node i with the frequency of construction,
\* and the interpolation returned the stored values[i]
AtNode(i) ==
    /\ last.op = "zeroRate"
    /\ i \in 1..Len(Times)
    /\ Times[i] = last.out.t
    /\ Values[i] = last.out.df
    /\ last.out.f = FinFrequency(call.frequencyType)

\* C3 as stated: at every grid node, in float mode and in date mode, under
\* every frequency and day count, zeroRate with the frequency of
\* construction returns the input rate of the node.
C3_RoundTripAnyCurve ==
    \A i \in 1..Len(call.timesOrDates) :
        AtNode(i) => last.out.result = RatVal(call.zeroRates[i])

\* the exponent the constructor used at node i is the stored time of the node
ExponentIsTime(i) ==
    \/ call.timesOrDates[1].kind = "float"
    \/ FinFrequency(call.frequencyType) = -1
    \/ yearFrac(call.dayCountType, call.curveDate, call.timesOrDates[i].v) = Times[i]

\* C3 amended: at a grid node with a time above 0 whose discount factor was
\* compounded over the stored time (float mode, continuous compounding, or a
\* day count whose year fraction equals the stored time), zeroRate with the
\* frequency of construction returns the input rate of the node.
C3_RoundTrip ==
    \A i \in 1..Len(call.timesOrDates) :
        (AtNode(i) /\ Times[i] # Zero /\ ExponentIsTime(i))
            => last.out.result = RatVal(call.zeroRates[i])

C3_Witness ==
    \E i \in 1..Len(call.timesOrDates) :
        /\ AtNode(i)
        /\ Times[i] # Zero
        /\ call.timesOrDates[1].kind = "date"
        /\ call.frequencyType = "SEMI_ANNUAL"
        /\ call.zeroRates[i] # Zero
        /\ last.out.result = RatVal(call.zeroRates[i])

\* the arguments the claim C4 calls otherwise valid
C4_Valid ==
    /\ phase # "new"
    /\ Len(call.timesOrDates) > 0
    /\ Len(call.timesOrDates) = Len(call.zeroRates)
    /\ call.frequencyType \in FinFrequencyTypes
    /\ call.dayCountType \in FinDayCountTypes

\* C4 as stated: a call with a non-empty list, equal lengths, a known
\* frequency and a known day count whose times are not non-decreasing fails
\* with NotMonotonic.
C4_UnsortedAlwaysNotMonotonic ==
    (C4_Valid /\ NotSorted(call)) => err = "NotMonotonic"

\* C4 amended: such a call whose first element is a float or a date and none
\* of whose times is negative fails with NotMonotonic.
C4_UnsortedNotMonotonic ==
    (/\ C4_Valid
     /\ NotSorted(call)
     /\ call.timesOrDates[1].kind \in {"float", "date"}
     /\ ~HasNegativeTime(call)) => (phase = "failed" /\ err = "NotMonotonic")

C4_Witness ==
    /\ C4_Valid
    /\ NotSorted(call)
    /\ call.timesOrDates[1].kind = "date"
    /\ ~HasNegativeTime(call)
    /\ err = "NotMonotonic"

\* C5: after any sequence of queries the attributes of the curve and the
\* contents of its two arrays are those construction gave them.
C5_Immutable ==
    phase = "built" =>
        LET c == FinZeroCurve_init(<<>>, call)
        IN  /\ self = c.self
            /\ Times = c.heap[c.self._times]
            /\ Values = c.heap[c.self._values]

C5_Witness ==
    /\ phase = "built"
    /\ last.op = "bump"
    /\ last.bumpSize # Zero
    /\ heap[last.out._values] # Values

\* C6: the curve bump returns has the times, the curve date and the
\* interpolation method of the source, at every node the value
\* values[i] * exp(-bumpSize * times[i]), and arrays that are not the arrays
\* of the source.
C6_BumpResult ==
    last.op = "bump" =>
        LET c == last.out
        IN  /\ heap[c._times] = Times
            /\ c._curveDate = self._curveDate
            /\ c._interpMethod = self._interpMethod
            /\ Len(heap[c._values]) = Len(Values)
            /\ \A i \in 1..Len(Values) :
                  heap[c._values][i] =
                      MulExp(Values[i], RatNeg(RatMul(last.bumpSize, Times[i])))
            /\ {c._times, c._values} \cap {self._times, self._values} = {}
            /\ c._times # c._values

C6_Witness ==
    /\ last.op = "bump"
    /\ last.bumpSize # Zero
    /\ Len(Times) = MaxLen
    /\ \E i \in 1..Len(Times) : Times[i] # Zero /\ heap[last.out._values][i] # Values[i]

\* C7: bump(a) followed by bump(b) on the result gives at every node the
\* value of a single bump(a + b) of the source, values[i] * exp(-(a+b) *
\* times[i]); bump(0) gives the values of the source.
C7_BumpAdditive ==
    /\ last.op = "bumpAgain" =>
          LET ab == RatAdd(last.first, last.bumpSize)
              single == bump(Live(heap, self), self, ab)
          IN  /\ heap[last.out._values] = single.heap[single.curve._values]
              /\ \A i \in 1..Len(Values) :
                    heap[last.out._values][i] =
                        MulExp(Values[i], RatNeg(RatMul(ab, Times[i])))
    /\ (last.op = "bump" /\ last.bumpSize = Zero) => heap[last.out._values] = Values

C7_Witness ==
    /\ last.op = "bumpAgain"
    /\ last.first # Zero
    /\ last.bumpSize = last.first
    /\ Len(Times) = MaxLen
    /\ Times[Len(Times)] # Zero

\* C8: fwdRate raises, returning no rate and calling neither df nor
\* yearFrac, when date1 is before the curve date or date2 is before date1,
\* the error being that of the curve date when both hold; otherwise it
\* raises nothing and returns (df(date1)/df(date2) - 1)/yearFrac(date1, date2).
C8_FwdRateDateOrder ==
    last.op = "fwdRate" =>
        LET o == last.out
            early == last.date1 < self._curveDate
            reversed == last.date2 < last.date1
        IN  /\ (early \/ reversed) =>
                  (o.err # "" /\ o.result = NoResult /\ o.calls = <<>>)
            /\ early => o.err = "Date1 before curve value date."
            /\ (~early /\ reversed) => o.err = "Date2 must not be before Date1"
            /\ (~early /\ ~reversed) =>
                  /\ o.err = ""
                  /\ o.result =
                        SimpleForward(df(heap, self, [kind |-> "date", v |-> last.date1]),
                                      df(heap, self, [kind |-> "date", v |-> last.date2]),
                                      yearFrac(last.dayCountType, last.date1, last.date2))

C8_Witness ==
    /\ last.op = "fwdRate"
    /\ last.date1 < self._curveDate
    /\ last.date2 < last.date1
    /\ last.out.err = "Date1 before curve value date."

\* C9: a constructed curve has as many times as values as input quotes, at
\* least one, and no negative time; a call with a negative time among its
\* floats or its dates does not construct a curve.
C9_LengthsAndSigns ==
    /\ phase = "built" =>
          /\ Len(Times) = Len(Values)
          /\ Len(Times) = Len(call.timesOrDates)
          /\ Len(Times) >= 1
          /\ \A i \in 1..Len(Times) : ~RatLt(Times[i], Zero)
    /\ (phase # "new" /\ HasNegativeTime(call)) => (phase = "failed" /\ self = NewObject)

C9_Witness ==
    /\ phase = "failed"
    /\ err = "NegativeTime"
    /\ call.timesOrDates[1].kind = "float"
    /\ RatLt(ResolvedTime(call, 1), Zero)

\* the error the order of C10 selects for the call a, "" when no condition holds
ExpectedError(a) ==
    IF Len(a.timesOrDates) = 0 THEN "EmptyInput"
    ELSE IF Len(a.timesOrDates) # Len(a.zeroRates) THEN "LengthMismatch"
    ELSE IF a.frequencyType \notin FinFrequencyTypes THEN "UnknownFrequency"
    ELSE IF a.dayCountType \notin FinDayCountTypes THEN "UnknownDayCount"
    ELSE IF a.timesOrDates[1].kind \notin {"float", "date"} THEN "UnsupportedInputType"
    ELSE IF HasNegativeTime(a) THEN "NegativeTime"
    ELSE IF NotSorted(a) THEN "NotMonotonic"
    ELSE ""

\* C10: the constructor raises the first error, in the order EmptyInput,
\* LengthMismatch, UnknownFrequency, UnknownDayCount, UnsupportedInputType,
\* NegativeTime, NotMonotonic, whose condition holds, and none when none holds.
C10_ErrorOrder ==
    phase # "new" =>
        /\ err = ExpectedError(call)
        /\ (phase = "failed") = (err # "")

C10_Witness ==
    /\ phase = "failed"
    /\ err = "EmptyInput"
    /\ Len(call.zeroRates) > 0

=============================================================================
